---------------------------- MODULE Spec2Model ----------------------------
(***************************************************************************)
(* google-fonts-downloader.py: download_font_files, create_zip and main.  *)
(*                                                                         *)
(* A Python str is a sequence of one-character strings, so that the       *)
(* string operations of the script (lower, replace, join, endswith,       *)
(* rsplit, the regular expression FONT_URL_RE and re.sub's replacement    *)
(* template) are computed character by character.  A dict is a sequence   *)
(* of key/value entries in insertion order.                               *)
(***************************************************************************)
EXTENDS Integers, Sequences, FiniteSets, TLC

(***************************************************************************)
(* Bounds of the model.                                                    *)
(***************************************************************************)
\* Longest --weight list the model passes to download_font_files.
MaxWeights == 2

(***************************************************************************)
(* Python string primitives.                                               *)
(***************************************************************************)
RECURSIVE Flatten(_)
\* [val for part in parts for val in part]
Flatten(parts) ==
    IF parts = <<>> THEN <<>> ELSE Head(parts) \o Flatten(Tail(parts))

RECURSIVE Join(_, _)
\* sep.join(parts)
Join(sep, parts) ==
    IF parts = <<>> THEN <<>>
    ELSE IF Len(parts) = 1 THEN parts[1]
    ELSE parts[1] \o sep \o Join(sep, Tail(parts))

UPPERCASE == <<"A","B","C","D","E","F","G","H","I","J","K","L","M",
               "N","O","P","Q","R","S","T","U","V","W","X","Y","Z">>
LOWERCASE == <<"a","b","c","d","e","f","g","h","i","j","k","l","m",
               "n","o","p","q","r","s","t","u","v","w","x","y","z">>

\* str.lower(), one character
LowerChar(c) ==
    IF \E k \in 1..Len(UPPERCASE) : UPPERCASE[k] = c
    THEN LOWERCASE[CHOOSE k \in 1..Len(UPPERCASE) : UPPERCASE[k] = c]
    ELSE c

\* str.lower()
Lower(s) == [k \in 1..Len(s) |-> LowerChar(s[k])]

\* str.replace(old, new) for one-character old and new
Replace(s, old, new) == [k \in 1..Len(s) |-> IF s[k] = old THEN new ELSE s[k]]

\* str.endswith(c) for a one-character suffix
EndsWith(s, c) == Len(s) > 0 /\ s[Len(s)] = c

\* The least index >= from at which text holds character c; 0 when there is none.
FirstIndex(text, from, c) ==
    LET hits == {k \in from..Len(text) : text[k] = c}
    IN  IF hits = {} THEN 0 ELSE CHOOSE k \in hits : \A j \in hits : k <= j

\* The greatest index at which text holds character c; 0 when there is none.
LastIndex(text, c) ==
    LET hits == {k \in 1..Len(text) : text[k] = c}
    IN  IF hits = {} THEN 0 ELSE CHOOSE k \in hits : \A j \in hits : k >= j

\* str.rsplit(sep, maxsplit=1) for a one-character sep: a list of one or two parts
RSplit1(s, sep) ==
    LET d == LastIndex(s, sep)
    IN  IF d = 0 THEN <<s>>
        ELSE <<SubSeq(s, 1, d - 1), SubSeq(s, d + 1, Len(s))>>

\* Whether text holds the literal lit at index p.
IsLiteralAt(text, p, lit) ==
    /\ p + Len(lit) - 1 <= Len(text)
    /\ \A k \in 1..Len(lit) : text[p + k - 1] = lit[k]

(***************************************************************************)
(* Module constants of the script.                                         *)
(***************************************************************************)
GOOGLE_FONTS_API ==
    <<"h","t","t","p","s",":","/","/","f","o","n","t","s",".","g","o","o","g","l","e",
      "a","p","i","s",".","c","o","m","/","c","s","s">>
WOFF_USER_AGENT ==
    "Mozilla/5.0 (Windows NT 6.1; WOW64; rv:27.0) Gecko/20100101 Firefox/27.0"
WOFF2_USER_AGENT ==
    "Mozilla/5.0 (Windows NT 6.3; rv:39.0) Gecko/20100101 Firefox/39.0"

woff == <<"w","o","f","f">>
woff2 == <<"w","o","f","f","2">>

FONT_FORMATS ==
    << [format |-> woff, agent |-> WOFF_USER_AGENT],
       [format |-> woff2, agent |-> WOFF2_USER_AGENT] >>

(***************************************************************************)
(* FONT_URL_RE = re.compile(r'src: url\((.*?)\).*?\n')                     *)
(*                                                                         *)
(* A match at p is the literal "src: url(", then the shortest run of      *)
(* characters other than the line terminator up to a ")", then the        *)
(* shortest run of such characters up to a line terminator.  "." does not *)
(* match the line terminator, so the ")" lies before the first line       *)
(* terminator that follows the literal, and the match ends at it.         *)
(***************************************************************************)
SRC_URL_OPEN == <<"s","r","c",":"," ","u","r","l","(">>
NEWLINE == "\n"

NoMatch == [start |-> 0, end |-> 0, group1 |-> <<>>]

\* The ")" a lazy (.*?) stops at: the first one after index a.
LazyClose(text, a) == FirstIndex(text, a, ")")

\* The match of FONT_URL_RE that starts at index p, or NoMatch.
MatchAt(text, p) ==
    IF ~IsLiteralAt(text, p, SRC_URL_OPEN) THEN NoMatch
    ELSE LET a  == p + Len(SRC_URL_OPEN)
             nl == FirstIndex(text, a, NEWLINE)
             cp == IF nl = 0 THEN 0 ELSE LazyClose(text, a)
         IN  IF nl # 0 /\ cp # 0 /\ cp < nl
             THEN [start |-> p, end |-> nl, group1 |-> SubSeq(text, a, cp - 1)]
             ELSE NoMatch

RECURSIVE FindFrom(_, _)
\* The non-overlapping matches found scanning from index pos, leftmost first.
FindFrom(text, pos) ==
    LET starts == {p \in pos..Len(text) :
                     text[p] = SRC_URL_OPEN[1] /\ MatchAt(text, p) # NoMatch}
    IN  IF starts = {} THEN <<>>
        ELSE LET m == MatchAt(text, CHOOSE p \in starts : \A q \in starts : p <= q)
             IN  <<m>> \o FindFrom(text, m.end + 1)

\* list(FONT_URL_RE.finditer(text))
finditer(text) == FindFrom(text, 1)

(***************************************************************************)
(* re.sub's replacement template.  A backslash in the replacement string  *)
(* starts an escape: "\\" is one backslash, "\1" is the text of group 1,  *)
(* a backslash before an ASCII letter other than the known escapes, before*)
(* a digit naming no group, or at the very end is an error (re.error);    *)
(* a backslash before any other character stays as it is.  The escapes    *)
(* \a \b \f \n \r \t \v \g<..> and octal escapes are treated as errors    *)
(* here; the inputs of the model never hold them.                         *)
(***************************************************************************)
BACKSLASH == "\\"
DIGITS == {"0","1","2","3","4","5","6","7","8","9"}
TemplateError == [ok |-> FALSE, text |-> <<>>]

IsAsciiLetter(c) ==
    \E k \in 1..Len(UPPERCASE) : UPPERCASE[k] = c \/ LOWERCASE[k] = c

\* What the escape "\c" stands for; next is the character after c, "" at the end.
Escape(c, next, group1) ==
    IF c = BACKSLASH THEN [ok |-> TRUE, text |-> <<BACKSLASH>>]
    ELSE IF c = "1" /\ next \notin DIGITS THEN [ok |-> TRUE, text |-> group1]
    ELSE IF c \in DIGITS \/ IsAsciiLetter(c) THEN TemplateError
    ELSE [ok |-> TRUE, text |-> <<BACKSLASH, c>>]

RECURSIVE ExpandFrom(_, _, _)
\* The template from index k on: literal text up to the next backslash, the
\* escape it starts, and the rest.
ExpandFrom(repl, k, group1) ==
    LET b == FirstIndex(repl, k, BACKSLASH)
    IN  IF b = 0 THEN [ok |-> TRUE, text |-> SubSeq(repl, k, Len(repl))]
        ELSE IF b = Len(repl) THEN TemplateError
        ELSE LET e    == Escape(repl[b + 1],
                                IF b + 2 <= Len(repl) THEN repl[b + 2] ELSE "",
                                group1)
                 rest == ExpandFrom(repl, b + 2, group1)
             IN  IF e.ok /\ rest.ok
                 THEN [ok |-> TRUE, text |-> SubSeq(repl, k, b - 1) \o e.text \o rest.text]
                 ELSE TemplateError

\* The text one match is replaced by.
expand_template(repl, group1) == ExpandFrom(repl, 1, group1)

RECURSIVE SubFrom(_, _, _, _)
SubFrom(repl, text, pos, matches) ==
    IF matches = <<>> THEN [ok |-> TRUE, text |-> SubSeq(text, pos, Len(text))]
    ELSE LET m    == Head(matches)
             e    == expand_template(repl, m.group1)
             rest == SubFrom(repl, text, m.end + 1, Tail(matches))
         IN  IF e.ok /\ rest.ok
             THEN [ok |-> TRUE,
                   text |-> SubSeq(text, pos, m.start - 1) \o e.text \o rest.text]
             ELSE TemplateError

\* FONT_URL_RE.sub(repl, text): every match replaced by the expanded template.
sub(repl, text) == SubFrom(repl, text, 1, finditer(text))

(***************************************************************************)
(* get_base_filename and the string formatting of download_font_files.    *)
(***************************************************************************)
get_base_filename(family, subsets) ==
    Replace(Lower(family), " ", "_") \o <<"-">> \o Join(<<"_">>, subsets)

\* [w + 'i' for w in weights]
italic_weights(weights) == [k \in 1..Len(weights) |-> weights[k] \o <<"i">>]

\* zip(a, b)
Zip(a, b) ==
    [k \in 1..(IF Len(a) <= Len(b) THEN Len(a) ELSE Len(b)) |-> <<a[k], b[k]>>]

\* Variant: the italic weights follow the regular ones instead of alternating.
expand_weights_appended(weights, italic) ==
    IF italic THEN weights \o italic_weights(weights) ELSE weights

\* The weight list the loop iterates.
expand_weights(weights, italic) ==
    IF italic THEN Flatten(Zip(weights, italic_weights(weights))) ELSE weights

\* Variant: the trailing "i" is replaced by "talic" instead of followed by it.
weight_label_replaced(weight) ==
    IF EndsWith(weight, "i")
    THEN SubSeq(weight, 1, Len(weight) - 1) \o <<"t","a","l","i","c">>
    ELSE weight

\* weight + 'talic' if weight.endswith('i') else weight
weight_label(weight) ==
    IF EndsWith(weight, "i") THEN weight \o <<"t","a","l","i","c">> ELSE weight

\* '{}-{}.{}'.format(base_filename, label, extension)
format_filename(base_filename, weight, extension) ==
    base_filename \o <<"-">> \o weight_label(weight) \o <<".">> \o extension

\* "url('{}') format('{}')".format(filename, format)
format_source(filename, format) ==
    <<"u","r","l","(","'">> \o filename
        \o <<"'",")"," ","f","o","r","m","a","t","(","'">> \o format \o <<"'",")">>

\* reversed(seq)
Reversed(s) == [k \in 1..Len(s) |-> s[Len(s) + 1 - k]]

\* Variant: the sources are listed in the order of FONT_FORMATS, not reversed.
new_src_in_order(font_format_filenames) ==
    LET sources == [k \in 1..Len(font_format_filenames) |->
                      format_source(font_format_filenames[k].filename,
                                    font_format_filenames[k].font_format.format)]
    IN  <<"s","r","c",":"," ">>
          \o Join(<<",","\n"," "," "," "," "," "," "," ">>, sources)
          \o <<";","\n">>

\* 'src: {};\n'.format(',\n       '.join(sources)), sources in reversed order
new_src(font_format_filenames) ==
    LET order   == Reversed(font_format_filenames)
        sources == [k \in 1..Len(order) |->
                      format_source(order[k].filename, order[k].font_format.format)]
    IN  <<"s","r","c",":"," ">>
          \o Join(<<",","\n"," "," "," "," "," "," "," ">>, sources)
          \o <<";","\n">>

\* '{}:{}'.format(family, weight) and ','.join(subsets)
css_params(family, weight, subsets) ==
    [family |-> family \o <<":">> \o weight, subset |-> Join(<<",">>, subsets)]

(***************************************************************************)
(* dict: entries in insertion order; assigning an existing key keeps its  *)
(* place and replaces its value.                                           *)
(***************************************************************************)
HasKey(d, k) == \E n \in 1..Len(d) : d[n].key = k

\* Variant: assigning an existing key moves it to the end.
dict_set_moves_to_end(d, k, v) ==
    Append(SelectSeq(d, LAMBDA e : e.key # k), [key |-> k, value |-> v])

dict_set(d, k, v) ==
    IF HasKey(d, k)
    THEN [n \in 1..Len(d) |-> IF d[n].key = k THEN [key |-> k, value |-> v] ELSE d[n]]
    ELSE Append(d, [key |-> k, value |-> v])

Keys(d) == [n \in 1..Len(d) |-> d[n].key]

(***************************************************************************)
(* The command line (parse_args): the inputs the model draws.             *)
(***************************************************************************)
Families == { <<"O","p","e","n"," ","S","a","n","s">>, <<"L","a","t","o">> }
WeightTokens == { <<"4","0","0">>, <<"7","0","0">> }
SubsetLists ==
    { << <<"l","a","t","i","n">> >>,
      << <<"l","a","t","i","n">>, <<"l","a","t","i","n","-","e","x","t">> >> }

\* nargs='+': one or more weights, in the caller's order, repeats allowed.
WeightLists ==
    UNION { [1..n -> WeightTokens] : n \in 1..MaxWeights }

(***************************************************************************)
(* The upstream service.  A CSS response that succeeds carries one src    *)
(* declaration whose URL has one of these shapes; the endpoint picks the  *)
(* font format from the User-Agent of the request.  At every request the  *)
(* service may instead answer with a failure status, or answer a CSS      *)
(* request with a body holding no declaration or two; and requests.get    *)
(* may raise instead of returning a response (no connection, a URL it     *)
(* refuses).                                                               *)
(***************************************************************************)
Upstreams == {"plain", "quoted", "same_ext", "no_dot", "escaped", "bad_escape"}

UrlHost ==
    <<"h","t","t","p","s",":","/","/","f","o","n","t","s",".",
      "e","x","a","m","p","l","e","/","f">>

\* The weight a CSS request asks for: the text after the ":" of family.
RequestedWeight(params) == RSplit1(params.family, ":")[2]

\* The format the endpoint serves to a User-Agent.
ServedFormat(agent) == IF agent = WOFF2_USER_AGENT THEN woff2 ELSE woff

AssetUrl(shape, weight, format) ==
    LET plain == UrlHost \o weight \o <<".">> \o format
    IN  CASE shape = "plain"      -> plain
          [] shape = "quoted"     -> <<"'">> \o plain \o <<"'">>
          [] shape = "same_ext"   -> UrlHost \o weight \o <<".","t","t","f">>
          [] shape = "no_dot"     -> <<"h","t","t","p","s",":","/","/","h","/","f">> \o weight
          [] shape = "escaped"    -> plain \o <<BACKSLASH, BACKSLASH>>
          [] shape = "bad_escape" -> plain \o <<BACKSLASH, "d">>

\* One @font-face block with a single src declaration.
FontFace(url, format) ==
    <<"/","*"," ">> \o format \o <<" ","*","/",NEWLINE>>
      \o <<"@","f","o","n","t","-","f","a","c","e"," ","{",NEWLINE," "," ">>
      \o SRC_URL_OPEN \o url \o <<")">>
      \o <<" ","f","o","r","m","a","t","(","'">> \o format \o <<"'",")",";",NEWLINE>>
      \o <<"}",NEWLINE>>

\* The CSS text the endpoint serves for a request when it recognises it.
GoodCss(shape, req) ==
    LET format == ServedFormat(req.agent)
    IN  FontFace(AssetUrl(shape, RequestedWeight(req.params), format), format)

\* CSS texts that do not hold exactly one declaration: none at all, one with
\* no line terminator after it, one whose ")" comes after the line terminator,
\* and two declarations.
BadCss(shape, req) ==
    LET url == AssetUrl(shape, RequestedWeight(req.params), ServedFormat(req.agent))
    IN  { <<"/","*"," ","n","o","n","e"," ","*","/",NEWLINE>>,
          SRC_URL_OPEN \o url \o <<")",";">>,
          SRC_URL_OPEN \o url \o <<NEWLINE,")",";",NEWLINE>>,
          GoodCss(shape, req) \o GoodCss(shape, req) }

NoPayload == [kind |-> "none", id |-> 0, text |-> <<>>]

\* requests.get raised: there is no response.
NoResponse == [status |-> 0, text |-> <<>>, content |-> NoPayload]

\* The outcomes of requests.get for a CSS request.
CssResponses(shape, req) ==
    {[status |-> 200, text |-> GoodCss(shape, req), content |-> NoPayload]}
      \cup {[status |-> 200, text |-> b, content |-> NoPayload] : b \in BadCss(shape, req)}
      \cup {[status |-> 404, text |-> <<>>, content |-> NoPayload]}
      \cup {NoResponse}

\* The outcomes of requests.get for the n-th request, an asset request:
\* bytes that name the request they answer, a failure status, or no response.
AssetResponses(n) ==
    {[status |-> 200, text |-> <<>>, content |-> [kind |-> "font", id |-> n, text |-> <<>>]],
     [status |-> 404, text |-> <<>>, content |-> NoPayload],
     NoResponse}

\* Variant: a failure status is not raised.
raise_for_status_never(status) == FALSE

\* Response.raise_for_status(): whether it raises HTTPError.
raise_for_status(status) == status >= 400 /\ status < 600

\* str.encode('utf-8')
encode(text) == [kind |-> "utf-8", id |-> 0, text |-> text]

(***************************************************************************)
(* State.                                                                  *)
(***************************************************************************)
VARIABLES
    options,                \* main: the parsed command line
    upstream,               \* the shape of the URLs the service serves
    pc,                     \* where main stands
    weights,                \* download_font_files: the weight list iterated
    base_filename,
    css,                    \* the list of CSS snippets
    files,                  \* the dict filename -> contents
    wi,                     \* index of the current weight in weights
    fi,                     \* index of the current font_format in FONT_FORMATS
    font_format_filenames,  \* the (font_format, filename) pairs of the weight
    css_part,               \* text of the last CSS response
    font_url,               \* group 1 of the match in the last CSS response
    error,                  \* the exception that left main, "" if none
    result,                 \* what download_font_files returned to main
    zip,                    \* the members create_zip wrote, in order
    stderr,                 \* the URLs printed
    trace,                  \* history: every request sent and response received
    stores                  \* history: every files[filename] = r.content

vars == <<options, upstream, pc, weights, base_filename, css, files, wi, fi,
          font_format_filenames, css_part, font_url, error, result, zip,
          stderr, trace, stores>>

None == <<>>

Init ==
    /\ options \in [family : Families, weight : WeightLists,
                    subset : SubsetLists, italic : BOOLEAN]
    /\ upstream \in Upstreams
    /\ pc = "main"
    /\ weights = <<>>
    /\ base_filename = <<>>
    /\ css = <<>>
    /\ files = <<>>
    /\ wi = 0
    /\ fi = 0
    /\ font_format_filenames = <<>>
    /\ css_part = <<>>
    /\ font_url = <<>>
    /\ error = ""
    /\ result = None
    /\ zip = <<>>
    /\ stderr = <<>>
    /\ trace = <<>>
    /\ stores = <<>>

(***************************************************************************)
(* HTTP requests of the loop body.                                         *)
(***************************************************************************)
NoParams == [family |-> <<>>, subset |-> <<>>]

\* requests.get(GOOGLE_FONTS_API, headers={'User-Agent': agent}, params={...})
CssRequestOf(family, weight, subsets, font_format) ==
    [kind |-> "css", url |-> GOOGLE_FONTS_API, agent |-> font_format.agent,
     params |-> css_params(family, weight, subsets)]

\* Variant: the asset request always carries the first format's User-Agent.
AssetAgent_first(font_format) == FONT_FORMATS[1].agent

\* The User-Agent header of the asset request.
AssetAgent(font_format) == font_format.agent

\* requests.get(font_url, headers={'User-Agent': agent})
AssetRequestOf(url, font_format) ==
    [kind |-> "asset", url |-> url, agent |-> AssetAgent(font_format),
     params |-> NoParams]

Sent(req) == [ev |-> "send", req |-> req, status |-> 0, text |-> <<>>,
              content |-> NoPayload]
Received(req, r) == [ev |-> IF r = NoResponse THEN "raise" ELSE "recv",
                     req |-> req, status |-> r.status,
                     text |-> r.text, content |-> r.content]

\* The request whose response is awaited: the last one sent.
Pending == trace[Len(trace)].req

\* The number of requests sent so far.
Requests == Cardinality({k \in 1..Len(trace) : trace[k].ev = "send"})

\* An exception leaves download_font_files and main: the process ends.
Raise(kind) ==
    /\ pc' = "failed"
    /\ error' = kind

(***************************************************************************)
(* main, up to the first request: parse_args and lines 46-52.             *)
(***************************************************************************)
Start ==
    /\ pc = "main"
    /\ weights' = expand_weights(options.weight, options.italic)
    /\ base_filename' = get_base_filename(options.family, options.subset)
    /\ css' = <<>>
    /\ files' = <<>>
    /\ wi' = 1
    /\ fi' = 1
    /\ font_format_filenames' = <<>>
    /\ pc' = "css_get"
    /\ UNCHANGED <<options, upstream, css_part, font_url, error, result, zip,
                   stderr, trace, stores>>

\* Line 58: the CSS request of the current weight and format is sent.
CssRequest ==
    /\ pc = "css_get"
    /\ trace' = Append(trace, Sent(CssRequestOf(options.family, weights[wi],
                                                options.subset, FONT_FORMATS[fi])))
    /\ pc' = "css_wait"
    /\ UNCHANGED <<options, upstream, weights, base_filename, css, files, wi, fi,
                   font_format_filenames, css_part, font_url, error, result, zip,
                   stderr, stores>>

\* Variant: only the absence of a match is refused; the first of several is used.
WrongMatchCount_none(url_matches) == Len(url_matches) < 1

\* len(url_matches) != 1
WrongMatchCount(url_matches) == Len(url_matches) # 1

\* Lines 58-69: the CSS response arrives; its status and its matches are checked.
CssResponse ==
    /\ pc = "css_wait"
    /\ \E r \in CssResponses(upstream, Pending) :
         /\ trace' = Append(trace, Received(Pending, r))
         /\ IF r = NoResponse
            THEN /\ Raise("RequestException")
                 /\ UNCHANGED <<css_part, font_url, stderr>>
            ELSE IF raise_for_status(r.status)
            THEN /\ Raise("HTTPError")
                 /\ UNCHANGED <<css_part, font_url, stderr>>
            ELSE LET url_matches == finditer(r.text)
                 IN  /\ stderr' = Append(stderr, Pending)
                     /\ css_part' = r.text
                     /\ IF WrongMatchCount(url_matches)
                        THEN /\ Raise("RuntimeError")
                             /\ UNCHANGED font_url
                        ELSE /\ font_url' = url_matches[1].group1
                             /\ pc' = "asset_get"
                             /\ UNCHANGED error
    /\ UNCHANGED <<options, upstream, weights, base_filename, css, files, wi, fi,
                   font_format_filenames, result, zip, stores>>

\* Line 70: the asset request is sent.
AssetRequest ==
    /\ pc = "asset_get"
    /\ trace' = Append(trace, Sent(AssetRequestOf(font_url, FONT_FORMATS[fi])))
    /\ pc' = "asset_wait"
    /\ UNCHANGED <<options, upstream, weights, base_filename, css, files, wi, fi,
                   font_format_filenames, css_part, font_url, error, result, zip,
                   stderr, stores>>

\* files[base_filename + '.css'] = '\n'.join(css).encode('utf-8')
with_css(d, base, snippets) ==
    dict_set(d, base \o <<".","c","s","s">>, encode(Join(<<NEWLINE>>, snippets)))

\* Lines 70-89: the asset response arrives and is stored; after the last format
\* of a weight the snippet is built; after the last weight the dict is returned.
AssetResponse ==
    /\ pc = "asset_wait"
    /\ \E r \in AssetResponses(Requests) :
         LET parts    == RSplit1(font_url, ".")
             filename == format_filename(base_filename, weights[wi], parts[2])
             stored   == dict_set(files, filename, r.content)
             pairs    == Append(font_format_filenames,
                                [font_format |-> FONT_FORMATS[fi], filename |-> filename])
             snippet  == sub(new_src(pairs), css_part)
             snippets == Append(css, snippet.text)
             returned == with_css(stored, base_filename, snippets)
         IN
         /\ trace' = Append(trace, Received(Pending, r))
         /\ IF r = NoResponse
            THEN /\ Raise("RequestException")
                 /\ UNCHANGED <<files, font_format_filenames, css, wi, fi, result,
                                stderr, stores>>
            ELSE IF raise_for_status(r.status)
            THEN /\ Raise("HTTPError")
                 /\ UNCHANGED <<files, font_format_filenames, css, wi, fi, result,
                                stderr, stores>>
            ELSE IF Len(parts) < 2
            THEN /\ Raise("IndexError")
                 /\ stderr' = Append(stderr, Pending)
                 /\ UNCHANGED <<files, font_format_filenames, css, wi, fi, result,
                                stores>>
            ELSE /\ stderr' = Append(stderr, Pending)
                 /\ stores' = Append(stores, [wi |-> wi, fi |-> fi,
                                              filename |-> filename,
                                              content |-> r.content])
                 /\ IF fi < Len(FONT_FORMATS)
                    THEN /\ files' = stored
                         /\ font_format_filenames' = pairs
                         /\ fi' = fi + 1
                         /\ pc' = "css_get"
                         /\ UNCHANGED <<css, wi, result, error>>
                    ELSE IF ~snippet.ok
                    THEN /\ Raise("re.error")
                         /\ files' = stored
                         /\ font_format_filenames' = pairs
                         /\ UNCHANGED <<css, wi, fi, result>>
                    ELSE IF wi < Len(weights)
                    THEN /\ files' = stored
                         /\ css' = snippets
                         /\ wi' = wi + 1
                         /\ fi' = 1
                         /\ font_format_filenames' = <<>>
                         /\ pc' = "css_get"
                         /\ UNCHANGED <<result, error>>
                    ELSE /\ files' = returned
                         /\ css' = snippets
                         /\ font_format_filenames' = pairs
                         /\ result' = returned
                         /\ pc' = "returned"
                         /\ UNCHANGED <<wi, fi, error>>
    /\ UNCHANGED <<options, upstream, weights, base_filename, css_part, font_url, zip>>

\* zipf.writestr('{}/{}'.format(dirname, filename), contents), one member
zip_member(dirname, entry) ==
    [name |-> dirname \o <<"/">> \o entry.key, contents |-> entry.value]

\* Lines 92-95 and 101: create_zip writes the members in the dict's order.
CreateZip ==
    /\ pc = "returned"
    /\ zip' = [n \in 1..Len(result) |->
                 zip_member(get_base_filename(options.family, options.subset), result[n])]
    /\ pc' = "done"
    /\ UNCHANGED <<options, upstream, weights, base_filename, css, files, wi, fi,
                   font_format_filenames, css_part, font_url, error, result,
                   stderr, trace, stores>>

Next ==
    \/ Start
    \/ CssRequest
    \/ CssResponse
    \/ AssetRequest
    \/ AssetResponse
    \/ CreateZip

Spec == Init /\ [][Next]_vars

(***************************************************************************)
(* Vocabulary of the properties.                                           *)
(***************************************************************************)
\* download_font_files returned its dict to main.
Returned == pc \in {"returned", "done"}

\* The weight and the format of the k-th pass through the loop body.
StepWeight(k) == ((k - 1) \div Len(FONT_FORMATS)) + 1
StepFormat(k) == ((k - 1) % Len(FONT_FORMATS)) + 1

\* An outcome that makes the call fail: no response, a failure status, or a
\* CSS text that does not match FONT_URL_RE exactly once.
FailedResponse(e) ==
    \/ e.ev = "raise"
    \/ /\ e.ev = "recv"
       /\ \/ e.status >= 400
          \/ e.req.kind = "css" /\ Len(finditer(e.text)) # 1

\* The value stored under key k.
ValueOf(d, k) == d[CHOOSE n \in 1..Len(d) : d[n].key = k].value

\* Whether text holds lit somewhere.
Contains(text, lit) == \E p \in 1..Len(text) : IsLiteralAt(text, p, lit)

RECURSIVE FirstOccurrences(_, _)
\* s without the later repeats of its elements.
FirstOccurrences(s, seen) ==
    IF s = <<>> THEN <<>>
    ELSE IF Head(s) \in seen THEN FirstOccurrences(Tail(s), seen)
    ELSE <<Head(s)>> \o FirstOccurrences(Tail(s), seen \cup {Head(s)})

CssKey == get_base_filename(options.family, options.subset) \o <<".","c","s","s">>

(***************************************************************************)
(* C1.  download_font_files is all-or-nothing: once any response carries  *)
(* a failure status, or a CSS response does not match the pattern exactly *)
(* once, main has failed, nothing was returned and create_zip wrote       *)
(* nothing; a dict is returned only after every (weight, format) step got *)
(* both of its responses without failure.                                 *)
(***************************************************************************)
C1_AllOrNothing ==
    LET failed == \E k \in 1..Len(trace) : FailedResponse(trace[k])
    IN  /\ failed => pc = "failed" /\ result = None /\ zip = <<>>
        /\ pc = "failed" => result = None /\ zip = <<>>
        /\ result # None =>
             /\ Len(stores) = Len(FONT_FORMATS) * Len(weights)
             /\ Len(trace) = 4 * Len(stores)
             /\ ~failed
        /\ zip # <<>> => result # None

\* A failure after files of an earlier weight were already stored.
C1_Witness ==
    /\ pc = "failed"
    /\ error = "HTTPError"
    /\ wi = 2
    /\ Len(files) >= 2
    /\ result = None

(***************************************************************************)
(* C2.  A CSS response with a success status whose text holds zero or two *)
(* or more matches of the pattern ends the call with RuntimeError, with   *)
(* nothing returned and no request after it; when it holds exactly one,   *)
(* the request that follows is the asset request for the captured URL.    *)
(***************************************************************************)
C2_ExactlyOneMatch ==
    \A k \in 1..Len(trace) :
      LET e == trace[k]
          url_matches == finditer(e.text)
      IN  (e.ev = "recv" /\ e.req.kind = "css" /\ e.status < 400) =>
            IF Len(url_matches) # 1
            THEN /\ k = Len(trace)
                 /\ pc = "failed"
                 /\ error = "RuntimeError"
                 /\ result = None
            ELSE /\ k = Len(trace) =>
                      pc = "asset_get" /\ font_url = url_matches[1].group1
                 /\ k < Len(trace) =>
                      /\ trace[k + 1].ev = "send"
                      /\ trace[k + 1].req.kind = "asset"
                      /\ trace[k + 1].req.url = url_matches[1].group1

\* A CSS response with two declarations, after a weight was completed.
C2_Witness ==
    /\ pc = "failed"
    /\ error = "RuntimeError"
    /\ wi = 2
    /\ Len(finditer(trace[Len(trace)].text)) = 2

(***************************************************************************)
(* C5.  The weight list the loop iterates: without italic it is the       *)
(* caller's list; with italic it is twice as long and holds, for the k-th *)
(* weight w of the caller, w at 2k-1 and w + "i" at 2k.                    *)
(***************************************************************************)
C5_WeightExpansion ==
    pc # "main" =>
      IF options.italic
      THEN /\ Len(weights) = 2 * Len(options.weight)
           /\ \A k \in 1..Len(options.weight) :
                /\ weights[2 * k - 1] = options.weight[k]
                /\ weights[2 * k] = options.weight[k] \o <<"i">>
      ELSE weights = options.weight

\* An italic call with two different weights.
C5_Witness ==
    /\ pc # "main"
    /\ options.italic
    /\ Len(options.weight) >= 2
    /\ options.weight[1] # options.weight[2]
    /\ Len(weights) = 2 * Len(options.weight)

(***************************************************************************)
(* C6.  As claimed: every stored filename starts with                      *)
(* "<base_filename>-<label>." where the label of a weight ending in "i"   *)
(* is the weight with that "i" replaced by "talic" ("400i" gives          *)
(* "400talic"), and the weight itself otherwise.                          *)
(***************************************************************************)
ClaimedLabel(weight) ==
    IF EndsWith(weight, "i")
    THEN SubSeq(weight, 1, Len(weight) - 1) \o <<"t","a","l","i","c">>
    ELSE weight

C6_LabelReplacesMarker ==
    \A k \in 1..Len(stores) :
      IsLiteralAt(stores[k].filename, 1,
                  base_filename \o <<"-">> \o ClaimedLabel(weights[stores[k].wi]) \o <<".">>)

(***************************************************************************)
(* C6, amended.  The label of a weight ending in "i" is the weight, its   *)
(* "i" kept, followed by "talic" ("400i" gives "400italic"); the label of *)
(* any other weight is the weight itself ("400" gives "400").             *)
(***************************************************************************)
SpelledLabel(weight) ==
    IF weight = <<"4","0","0">> THEN <<"4","0","0">>
    ELSE IF weight = <<"7","0","0">> THEN <<"7","0","0">>
    ELSE IF weight = <<"4","0","0","i">> THEN <<"4","0","0","i","t","a","l","i","c">>
    ELSE IF weight = <<"7","0","0","i">> THEN <<"7","0","0","i","t","a","l","i","c">>
    ELSE <<>>

C6_LabelAppendsTalic ==
    \A k \in 1..Len(stores) :
      LET weight == weights[stores[k].wi]
          label  == IF weight[Len(weight)] = "i"
                    THEN weight \o <<"t","a","l","i","c">> ELSE weight
      IN  /\ label = SpelledLabel(weight)
          /\ IsLiteralAt(stores[k].filename, 1,
                         base_filename \o <<"-">> \o label \o <<".">>)

\* A file of weight "400i" was stored.
C6_Witness ==
    \E k \in 1..Len(stores) :
      /\ weights[stores[k].wi] = <<"4","0","0","i">>
      /\ Contains(stores[k].filename, <<"-","4","0","0","i","t","a","l","i","c",".">>)

(***************************************************************************)
(* C7.  As claimed: for the one weight "700" without italic, when the CSS *)
(* responses hold src: url('https://fonts.example/f700.woff') and         *)
(* src: url('https://fonts.example/f700.woff2'), the quotes included, the *)
(* returned dict has exactly the keys "<base>-700.woff",                  *)
(* "<base>-700.woff2" and "<base>.css", and the CSS file's src list names *)
(* those two files, woff2 first.                                          *)
(***************************************************************************)
Base == get_base_filename(options.family, options.subset)

\* The src declaration that lists file2 as woff2 and then file1 as woff.
SrcDeclaration(file2, file1) ==
    <<"s","r","c",":"," ","u","r","l","(","'">> \o file2
      \o <<"'",")"," ","f","o","r","m","a","t","(","'","w","o","f","f","2","'",")",",","\n">>
      \o <<" "," "," "," "," "," "," ","u","r","l","(","'">> \o file1
      \o <<"'",")"," ","f","o","r","m","a","t","(","'","w","o","f","f","'",")",";","\n">>

\* The number of url( references in text.
UrlCount(text) ==
    Cardinality({p \in 1..Len(text) : IsLiteralAt(text, p, <<"u","r","l","(">>)})

\* The returned dict holds exactly file1, file2 and the CSS file, whose text
\* lists file2 as woff2 before file1 as woff and references nothing else.
BundleOf(file1, file2) ==
    /\ {result[n].key : n \in 1..Len(result)} = {file1, file2, CssKey}
    /\ Len(result) = 3
    /\ Contains(ValueOf(result, CssKey).text, SrcDeclaration(file2, file1))
    /\ UrlCount(ValueOf(result, CssKey).text) = 2

OneWeight700 ==
    /\ Returned
    /\ options.weight = << <<"7","0","0">> >>
    /\ ~options.italic

C7_QuotedUrlsGivePlainNames ==
    (OneWeight700 /\ upstream = "quoted") =>
      BundleOf(Base \o <<"-","7","0","0",".","w","o","f","f">>,
               Base \o <<"-","7","0","0",".","w","o","f","f","2">>)

(***************************************************************************)
(* C7, amended.  When the declarations hold the URLs without quotes,      *)
(* src: url(https://fonts.example/f700.woff) and                          *)
(* src: url(https://fonts.example/f700.woff2), the returned dict has      *)
(* exactly the keys "<base>-700.woff", "<base>-700.woff2" and             *)
(* "<base>.css" and the CSS file's src list names those two files, woff2  *)
(* before woff, each as url('<file>') format('<format>').  With the       *)
(* quoted URLs of the claim the captured URL keeps its quotes: the asset  *)
(* requests go to the quoted text, and the keys are "<base>-700.woff'"    *)
(* and "<base>-700.woff2'", the closing quote included, which the CSS     *)
(* file names in the same order.                                          *)
(***************************************************************************)
C7_EndToEnd ==
    /\ (OneWeight700 /\ upstream = "plain") =>
         /\ BundleOf(Base \o <<"-","7","0","0",".","w","o","f","f">>,
                     Base \o <<"-","7","0","0",".","w","o","f","f","2">>)
         /\ trace[3].req.url = UrlHost \o <<"7","0","0",".","w","o","f","f">>
         /\ trace[7].req.url = UrlHost \o <<"7","0","0",".","w","o","f","f","2">>
    /\ (OneWeight700 /\ upstream = "quoted") =>
         /\ BundleOf(Base \o <<"-","7","0","0",".","w","o","f","f","'">>,
                     Base \o <<"-","7","0","0",".","w","o","f","f","2","'">>)
         /\ trace[3].req.url =
              <<"'">> \o UrlHost \o <<"7","0","0",".","w","o","f","f","'">>
         /\ trace[7].req.url =
              <<"'">> \o UrlHost \o <<"7","0","0",".","w","o","f","f","2","'">>

\* The call for weight "700" returned, the URLs served without quotes.
C7_Witness ==
    /\ OneWeight700
    /\ upstream = "plain"
    /\ Len(result) = 3
    /\ zip # <<>>

(***************************************************************************)
(* C8.  Files are stored in the order of the loop: the k-th store is the  *)
(* one of weight ceil(k/2), woff for odd k and woff2 for even k, so both  *)
(* files of a weight are stored before any file of the next.  The dict    *)
(* holds its keys in the order they were first stored; on return the      *)
(* combined CSS file is the last entry, its key is none of the stored     *)
(* filenames, and create_zip writes the members in the dict's order.      *)
(***************************************************************************)
StoredNames == [k \in 1..Len(stores) |-> stores[k].filename]

C8_InsertionOrder ==
    /\ \A k \in 1..Len(stores) :
         /\ stores[k].wi = StepWeight(k)
         /\ stores[k].fi = StepFormat(k)
    /\ \A k \in 1..Len(stores) : stores[k].filename # CssKey
    /\ ~Returned => Keys(files) = FirstOccurrences(StoredNames, {})
    /\ Returned =>
         /\ Len(stores) = Len(FONT_FORMATS) * Len(weights)
         /\ result = files
         /\ Keys(result) = FirstOccurrences(StoredNames, {}) \o <<CssKey>>
         /\ result[Len(result)].value.kind = "utf-8"
         /\ \A n \in 1..(Len(result) - 1) : result[n].value.kind = "font"
    /\ pc = "done" =>
         /\ Len(zip) = Len(result)
         /\ \A n \in 1..Len(zip) :
              /\ zip[n].name = Base \o <<"/">> \o result[n].key
              /\ zip[n].contents = result[n].value

\* Two or more weights, every file under its own name, and the archive written.
C8_Witness ==
    /\ pc = "done"
    /\ Len(weights) >= 2
    /\ Len(zip) = Len(FONT_FORMATS) * Len(weights) + 1
    /\ zip[Len(zip)].name = Base \o <<"/">> \o CssKey

(***************************************************************************)
(* C9.  The requests of one call are sequential: events alternate between *)
(* a request sent and its outcome received;  request 2s-1 is the CSS      *)
(* request of step s (weight ceil(s/2), format woff for odd s and woff2   *)
(* for even s) with family "<family>:<weight>" and the comma-joined       *)
(* subsets, request 2s is the asset request to the URL captured from the  *)
(* response to request 2s-1, under the User-Agent of that CSS request; a  *)
(* request that failed is the last event; a returned call has sent        *)
(* 4 x Len(weights) requests; once main has failed no request is sent.    *)
(***************************************************************************)
JoinedSubsets ==
    IF Len(options.subset) = 1 THEN options.subset[1]
    ELSE options.subset[1] \o <<",">> \o options.subset[2]

TraceInOrder ==
    /\ \A k \in 1..Len(trace) :
         LET e    == trace[k]
             n    == (k + 1) \div 2
             step == (n + 1) \div 2
             w    == weights[StepWeight(step)]
             ff   == FONT_FORMATS[StepFormat(step)]
             url_matches == finditer(trace[2 * (n - 1)].text)
         IN  /\ k % 2 = 1 => e.ev = "send"
             /\ k % 2 = 0 => e.ev \in {"recv", "raise"} /\ e.req = trace[k - 1].req
             /\ (k % 2 = 1 /\ n % 2 = 1) =>
                  /\ e.req.kind = "css"
                  /\ e.req.url = GOOGLE_FONTS_API
                  /\ e.req.agent = ff.agent
                  /\ e.req.params.family = options.family \o <<":">> \o w
                  /\ e.req.params.subset = JoinedSubsets
             /\ (k % 2 = 1 /\ n % 2 = 0) =>
                  /\ e.req.kind = "asset"
                  /\ Len(url_matches) = 1
                  /\ e.req.url = url_matches[1].group1
                  /\ e.req.agent = trace[2 * (n - 1)].req.agent
                  /\ e.req.agent = ff.agent
             /\ (k < Len(trace) /\ k % 2 = 0) => e.ev = "recv" /\ e.status < 400
    /\ Requests <= 4 * Len(weights)
    /\ Returned => Requests = 4 * Len(weights) /\ Len(trace) = 2 * Requests
    /\ pc = "failed" => Len(trace) % 2 = 0

C9_SequentialRequests ==
    /\ []TraceInOrder
    /\ [][(pc \in {"failed", "returned", "done"}) => (trace' = trace)]_vars

\* Every request of a two-weight italic call was sent and answered.
C9_Witness ==
    /\ pc = "done"
    /\ Len(weights) = 4
    /\ Requests = 16
    /\ Len(trace) = 32

(***************************************************************************)
(* C3.  As claimed: in a returned dict every (weight, format) step is     *)
(* stored under a filename of its own, so the dict holds                  *)
(* 2 x Len(weights) font entries and the one CSS entry.                   *)
(***************************************************************************)
C3_DistinctFilenames ==
    Returned =>
      /\ \A j, k \in 1..Len(stores) : j # k => stores[j].filename # stores[k].filename
      /\ Len(result) = 2 * Len(weights) + 1

(***************************************************************************)
(* C4.  As claimed: in a returned dict the CSS file is the join of one    *)
(* snippet per weight, in order, and the snippet of the j-th weight holds *)
(* the src declaration naming two different local files, the woff2 file   *)
(* and then the woff file of that weight, each a key of the dict whose    *)
(* value is the content downloaded for that weight and format.            *)
(***************************************************************************)
C4_CombinedCss ==
    Returned =>
      /\ Len(css) = Len(weights)
      /\ ValueOf(result, CssKey).text = Join(<<"\n">>, css)
      /\ \A j \in 1..Len(weights) :
           LET s1 == stores[2 * j - 1]
               s2 == stores[2 * j]
           IN  /\ Contains(css[j], SrcDeclaration(s2.filename, s1.filename))
               /\ UrlCount(css[j]) = 2
               /\ s1.filename # s2.filename
               /\ HasKey(result, s1.filename)
               /\ HasKey(result, s2.filename)
               /\ ValueOf(result, s1.filename) = s1.content
               /\ ValueOf(result, s2.filename) = s2.content

(***************************************************************************)
(* C10.  As claimed: the snippet of the j-th weight is the text of the    *)
(* woff2 CSS response of that weight with the span from "src: url(" to    *)
(* the end of its line replaced by the generated src declaration, the     *)
(* text before and after the span unchanged.                              *)
(***************************************************************************)
\* The text of the response to the CSS request of weight j and format f.
CssTextOf(j, f) == trace[4 * (Len(FONT_FORMATS) * (j - 1) + f) - 2].text

SpanStart(text) == CHOOSE p \in 1..Len(text) : IsLiteralAt(text, p, SRC_URL_OPEN)
SpanEnd(text) == FirstIndex(text, SpanStart(text), "\n")

C10_SnippetFromLastResponse ==
    \A j \in 1..Len(css) :
      LET text == CssTextOf(j, 2)
      IN  css[j] = SubSeq(text, 1, SpanStart(text) - 1)
                     \o SrcDeclaration(stores[2 * j].filename, stores[2 * j - 1].filename)
                     \o SubSeq(text, SpanEnd(text) + 1, Len(text))

=============================================================================
